---- MODULE Spec2Model ----
(***************************************************************************)
(* Model of two translators of the EdgeDB Rust client:                     *)
(*                                                                         *)
(*   - the credentials file reader/writer                                  *)
(*     (edgedb-client/src/credentials.rs, edgedb-tokio/src/credentials.rs) *)
(*   - the type descriptor decoder                                         *)
(*     (edgedb-protocol/src/descriptors.rs, features.rs)                   *)
(*                                                                         *)
(* Option<T> is modelled as a sequence of length at most one:              *)
(* None is <<>>, Some(v) is <<v>>.                                         *)
(***************************************************************************)
EXTENDS Integers, Sequences, FiniteSets, TLC

VARIABLES
    doc,        \* credentials: the document (the JSON object) at hand
    result,     \* credentials: Result<Credentials, Error> of the last read
    source,     \* credentials: the record the document was serialised from
    cpc,        \* credentials: position of the caller
    tokio,      \* credentials, edgedb-tokio: position of its caller, the
                \* document it read, its Result<Credentials, Error> and the
                \* document it wrote
    proto,      \* decoder: buf.proto(), <<major_ver, minor_ver>>
    buf,        \* decoder: the bytes of the Input not yet consumed
    root_id,    \* decoder: the root_id argument of decode_with_id
    descriptors,\* decoder: the local Vec<Descriptor> of decode_with_id
    decoded,    \* decoder: Result<OutputTypedesc, DecodeError>, once returned
    last,       \* decoder: the last call of Descriptor::decode and its result
    dpc,        \* decoder: position of the caller
    stream,     \* decoder: the records the input was encoded from
    tail        \* decoder: the bytes of the input that follow these records

cvars == <<doc, result, source, cpc, tokio>>

dvars == <<proto, buf, root_id, descriptors, decoded, last, dpc, stream, tail>>

vars == <<cvars, dvars>>

----------------------------------------------------------------------------
(* Option<T> *)

None == <<>>

Some(v) == <<v>>

IsSome(o) == Len(o) = 1

IsNone(o) == Len(o) = 0

Unwrap(o) == o[1]

\* Option::or
OrElse(a, b) == IF IsSome(a) THEN a ELSE b

\* Option::unwrap_or
UnwrapOr(o, d) == IF IsSome(o) THEN o[1] ELSE d

\* Option::zip
Zip(a, b) == IF IsSome(a) /\ IsSome(b) THEN Some(<<a[1], b[1]>>) ELSE None

Opt(S) == {None} \cup {Some(v) : v \in S}

----------------------------------------------------------------------------
(* Credentials: edgedb-client/src/credentials.rs *)

TlsSecurity == {"Insecure", "NoHostVerification", "Strict", "Default"}

\* #[serde(rename_all="snake_case")]: the spelling of a variant in a document
TlsSecurityToJson(t) ==
    CASE t = "Insecure" -> "insecure"
      [] t = "NoHostVerification" -> "no_host_verification"
      [] t = "Strict" -> "strict"
      [] t = "Default" -> "default"

TlsSecurityJson == {TlsSecurityToJson(t) : t \in TlsSecurity}

TlsSecurityFromJson(s) == CHOOSE t \in TlsSecurity : TlsSecurityToJson(t) = s

default_port == 5656

Ok(v) == [kind |-> "Ok", value |-> v]

Err(e, vals) == [kind |-> "Err", error |-> e, values |-> vals]

IsOk(r) == r.kind = "Ok"

\* The sample values the documents of the model are built from.
Hosts == {"localhost"}
Ports == {default_port, 10700}
Users == {"edgedb", "alice"}
Passwords == {"secret"}
Databases == {"main"}
Certs == {"A", "B"}
CloudIds == {"org/inst"}
CloudDsns == {"edgedb://cloud"}

\* A document of the grammar: every recognised key, absent (None) or present
\* with a value; user is required.
Docs ==
    [host : Opt(Hosts), port : Opt(Ports), user : {Some(u) : u \in Users},
     password : Opt(Passwords), database : Opt(Databases),
     tls_cert_data : Opt(Certs), tls_ca : Opt(Certs),
     tls_verify_hostname : Opt(BOOLEAN), tls_security : Opt(TlsSecurityJson),
     cloud_instance_id : Opt(CloudIds), cloud_original_dsn : Opt(CloudDsns)]

\* impl Default for Credentials
CredentialsDefault ==
    [host |-> None, port |-> 5656, user |-> "edgedb", password |-> None,
     database |-> None, tls_ca |-> None, tls_security |-> "Default",
     cloud_instance_id |-> None, cloud_original_dsn |-> None,
     file_outdated |-> FALSE]

\* #[derive(Deserialize)] for CredentialsCompat: user is required, port has a
\* default, every Option field missing from the document is None.
CompatDeserialize(d) ==
    IF IsNone(d.user) THEN Err("missing_field", <<"user">>)
    ELSE Ok([host |-> d.host,
             port |-> UnwrapOr(d.port, default_port),
             user |-> Unwrap(d.user),
             password |-> d.password,
             database |-> d.database,
             tls_cert_data |-> d.tls_cert_data,
             tls_ca |-> d.tls_ca,
             tls_verify_hostname |-> d.tls_verify_hostname,
             tls_security |->
                 IF IsSome(d.tls_security)
                 THEN Some(TlsSecurityFromJson(Unwrap(d.tls_security)))
                 ELSE None,
             cloud_instance_id |-> d.cloud_instance_id,
             cloud_original_dsn |-> d.cloud_original_dsn])

\* #[derive(Serialize)] for CredentialsCompat: port, user and tls_security are
\* always written, the other keys only when they are Some.
CompatSerialize(c) ==
    [host |-> c.host,
     port |-> Some(c.port),
     user |-> Some(c.user),
     password |-> c.password,
     database |-> c.database,
     tls_cert_data |-> c.tls_cert_data,
     tls_ca |-> c.tls_ca,
     tls_verify_hostname |-> c.tls_verify_hostname,
     tls_security |->
         IF IsSome(c.tls_security)
         THEN Some(TlsSecurityToJson(Unwrap(c.tls_security)))
         ELSE Some("null"),
     cloud_instance_id |-> c.cloud_instance_id,
     cloud_original_dsn |-> c.cloud_original_dsn]

VerifyHostnameMirrorInsecureOmitted(t) ==
    CASE t = "Default" -> None
      [] t = "Strict" -> Some(TRUE)
      [] t = "NoHostVerification" -> Some(FALSE)
      [] t = "Insecure" -> None

\* the match of Credentials::serialize on self.tls_security
VerifyHostnameMirror(t) ==
    CASE t = "Default" -> None
      [] t = "Strict" -> Some(TRUE)
      [] t = "NoHostVerification" -> Some(FALSE)
      [] t = "Insecure" -> Some(FALSE)

\* impl Serialize for Credentials
Serialize(r) ==
    CompatSerialize(
        [host |-> r.host,
         port |-> r.port,
         user |-> r.user,
         password |-> r.password,
         database |-> r.database,
         tls_ca |-> r.tls_ca,
         tls_cert_data |-> r.tls_ca,
         tls_security |-> Some(r.tls_security),
         tls_verify_hostname |-> VerifyHostnameMirror(r.tls_security),
         cloud_instance_id |-> r.cloud_instance_id,
         cloud_original_dsn |-> r.cloud_original_dsn])

\* let expected_verify = match creds.tls_security { ... }
ExpectedVerify(tls_security) ==
    IF tls_security = Some("Strict") THEN Some(TRUE)
    ELSE IF tls_security = Some("NoHostVerification") THEN Some(FALSE)
    ELSE None

VerifyConflictOnDisagreement(creds) ==
    /\ IsSome(creds.tls_verify_hostname)
    /\ IsSome(creds.tls_security)
    /\ LET z == Zip(ExpectedVerify(creds.tls_security),
                    creds.tls_verify_hostname)
       IN  IF IsSome(z) THEN z[1][1] # z[1][2] ELSE FALSE

\* the condition of the first branch of Credentials::deserialize
VerifyConflict(creds) ==
    /\ IsSome(creds.tls_verify_hostname)
    /\ IsSome(creds.tls_security)
    /\ LET z == Zip(ExpectedVerify(creds.tls_security),
                    creds.tls_verify_hostname)
       IN  IF IsSome(z) THEN z[1][1] = z[1][2] ELSE FALSE

CaConflictAlsoWhenEqual(creds) ==
    /\ IsSome(creds.tls_ca)
    /\ IsSome(creds.tls_cert_data)

\* the condition of the second branch of Credentials::deserialize
CaConflict(creds) ==
    /\ IsSome(creds.tls_ca)
    /\ IsSome(creds.tls_cert_data)
    /\ creds.tls_ca # creds.tls_cert_data

\* creds.tls_security.unwrap_or(match creds.tls_verify_hostname { ... })
ReconciledSecurity(creds) ==
    UnwrapOr(creds.tls_security,
             IF IsNone(creds.tls_verify_hostname) THEN "Default"
             ELSE IF Unwrap(creds.tls_verify_hostname) THEN "Strict"
             ELSE "NoHostVerification")

FileOutdatedWheneverDeprecatedKey(creds) ==
    IsSome(creds.tls_verify_hostname)

\* file_outdated: creds.tls_verify_hostname.is_some() &&
\*                creds.tls_security.is_none()
FileOutdated(creds) ==
    IsSome(creds.tls_verify_hostname) /\ IsNone(creds.tls_security)

\* impl Deserialize for Credentials
Deserialize(d) ==
    LET compat == CompatDeserialize(d) IN
    IF ~IsOk(compat) THEN compat
    ELSE LET creds == compat.value IN
         IF VerifyConflict(creds)
         THEN Err("conflict_tls_security",
                  <<IF IsSome(creds.tls_security)
                    THEN TlsSecurityToJson(Unwrap(creds.tls_security))
                    ELSE "null",
                    creds.tls_verify_hostname>>)
         ELSE IF CaConflict(creds)
         THEN Err("conflict_tls_ca", <<creds.tls_ca, creds.tls_cert_data>>)
         ELSE Ok([host |-> creds.host,
                  port |-> creds.port,
                  user |-> creds.user,
                  password |-> creds.password,
                  database |-> creds.database,
                  tls_ca |-> OrElse(creds.tls_ca, creds.tls_cert_data),
                  tls_security |-> ReconciledSecurity(creds),
                  file_outdated |-> FileOutdated(creds),
                  cloud_instance_id |-> creds.cloud_instance_id,
                  cloud_original_dsn |-> creds.cloud_original_dsn])

----------------------------------------------------------------------------
(* Credentials: edgedb-tokio/src/credentials.rs. The record has no cloud    *)
(* fields; TlsSecurity and its serde spelling are those above.              *)

\* impl Default for Credentials
TokioCredentialsDefault ==
    [host |-> None, port |-> 5656, user |-> "edgedb", password |-> None,
     database |-> None, tls_ca |-> None, tls_security |-> "Default",
     file_outdated |-> FALSE]

TokioCompatDeserializeDenyUnknown(d) ==
    IF IsNone(d.user) THEN Err("missing_field", <<"user">>)
    ELSE IF IsSome(d.cloud_instance_id) \/ IsSome(d.cloud_original_dsn)
    THEN Err("unknown_field", <<>>)
    ELSE Ok([host |-> d.host,
             port |-> UnwrapOr(d.port, default_port),
             user |-> Unwrap(d.user),
             password |-> d.password,
             database |-> d.database,
             tls_cert_data |-> d.tls_cert_data,
             tls_ca |-> d.tls_ca,
             tls_verify_hostname |-> d.tls_verify_hostname,
             tls_security |->
                 IF IsSome(d.tls_security)
                 THEN Some(TlsSecurityFromJson(Unwrap(d.tls_security)))
                 ELSE None])

\* #[derive(Deserialize)] for CredentialsCompat: as in edgedb-client, less
\* the cloud fields; a key the struct does not name is skipped.
TokioCompatDeserialize(d) ==
    IF IsNone(d.user) THEN Err("missing_field", <<"user">>)
    ELSE Ok([host |-> d.host,
             port |-> UnwrapOr(d.port, default_port),
             user |-> Unwrap(d.user),
             password |-> d.password,
             database |-> d.database,
             tls_cert_data |-> d.tls_cert_data,
             tls_ca |-> d.tls_ca,
             tls_verify_hostname |-> d.tls_verify_hostname,
             tls_security |->
                 IF IsSome(d.tls_security)
                 THEN Some(TlsSecurityFromJson(Unwrap(d.tls_security)))
                 ELSE None])

\* #[derive(Serialize)] for CredentialsCompat
TokioCompatSerialize(c) ==
    [host |-> c.host,
     port |-> Some(c.port),
     user |-> Some(c.user),
     password |-> c.password,
     database |-> c.database,
     tls_cert_data |-> c.tls_cert_data,
     tls_ca |-> c.tls_ca,
     tls_verify_hostname |-> c.tls_verify_hostname,
     tls_security |->
         IF IsSome(c.tls_security)
         THEN Some(TlsSecurityToJson(Unwrap(c.tls_security)))
         ELSE Some("null")]

\* the match of Credentials::serialize on self.tls_security
TokioVerifyHostnameMirror(t) ==
    CASE t = "Default" -> None
      [] t = "Strict" -> Some(TRUE)
      [] t = "NoHostVerification" -> Some(FALSE)
      [] t = "Insecure" -> Some(FALSE)

\* impl Serialize for Credentials
TokioSerialize(r) ==
    TokioCompatSerialize(
        [host |-> r.host,
         port |-> r.port,
         user |-> r.user,
         password |-> r.password,
         database |-> r.database,
         tls_ca |-> r.tls_ca,
         tls_cert_data |-> r.tls_ca,
         tls_security |-> Some(r.tls_security),
         tls_verify_hostname |-> TokioVerifyHostnameMirror(r.tls_security)])

\* let expected_verify = match creds.tls_security { ... }
TokioExpectedVerify(tls_security) ==
    IF tls_security = Some("Strict") THEN Some(TRUE)
    ELSE IF tls_security = Some("NoHostVerification") THEN Some(FALSE)
    ELSE None

\* the condition of the first branch of Credentials::deserialize
TokioVerifyConflict(creds) ==
    /\ IsSome(creds.tls_verify_hostname)
    /\ IsSome(creds.tls_security)
    /\ LET z == Zip(TokioExpectedVerify(creds.tls_security),
                    creds.tls_verify_hostname)
       IN  IF IsSome(z) THEN z[1][1] = z[1][2] ELSE FALSE

\* the condition of the second branch of Credentials::deserialize
TokioCaConflict(creds) ==
    /\ IsSome(creds.tls_ca)
    /\ IsSome(creds.tls_cert_data)
    /\ creds.tls_ca # creds.tls_cert_data

\* impl Deserialize for Credentials (feature "fs")
TokioDeserialize(d) ==
    LET compat == TokioCompatDeserialize(d) IN
    IF ~IsOk(compat) THEN compat
    ELSE LET creds == compat.value IN
         IF TokioVerifyConflict(creds)
         THEN Err("conflict_tls_security",
                  <<IF IsSome(creds.tls_security)
                    THEN TlsSecurityToJson(Unwrap(creds.tls_security))
                    ELSE "null",
                    creds.tls_verify_hostname>>)
         ELSE IF TokioCaConflict(creds)
         THEN Err("conflict_tls_ca", <<creds.tls_ca, creds.tls_cert_data>>)
         ELSE Ok([host |-> creds.host,
                  port |-> creds.port,
                  user |-> creds.user,
                  password |-> creds.password,
                  database |-> creds.database,
                  tls_ca |-> OrElse(creds.tls_ca, creds.tls_cert_data),
                  tls_security |->
                      UnwrapOr(creds.tls_security,
                               IF IsNone(creds.tls_verify_hostname)
                               THEN "Default"
                               ELSE IF Unwrap(creds.tls_verify_hostname)
                               THEN "Strict"
                               ELSE "NoHostVerification"),
                  file_outdated |->
                      IsSome(creds.tls_verify_hostname)
                          /\ IsNone(creds.tls_security)])

----------------------------------------------------------------------------
NoResult == [kind |-> "None"]

\* edgedb-tokio before it has read or written anything.
TokioIdle ==
    [pc |-> "start", input |-> None, result |-> NoResult, output |-> None]

\* The decoder at rest, while the credentials are exercised.
DecoderIdle ==
    /\ proto = <<1, 0>>
    /\ buf = <<>>
    /\ root_id = <<>>
    /\ descriptors = <<>>
    /\ decoded = NoResult
    /\ last = NoResult
    /\ dpc = "idle"
    /\ stream = <<>>
    /\ tail = <<>>

CredInit ==
    /\ doc \in Docs
    /\ result = NoResult
    /\ source = None
    /\ cpc = "start"
    /\ tokio = TokioIdle
    /\ DecoderIdle

\* serde_json::from_str::<Credentials>: the document at hand is read, be it
\* one found on disk or one this library has just written.
Parse ==
    /\ cpc \in {"start", "serialised"}
    /\ result' = Deserialize(doc)
    /\ cpc' = IF cpc = "start" THEN "parsed" ELSE "reparsed"
    /\ UNCHANGED <<doc, source, tokio, dvars>>

\* Credentials::default()
MakeDefault ==
    /\ cpc = "start"
    /\ result' = Ok(CredentialsDefault)
    /\ cpc' = "defaulted"
    /\ UNCHANGED <<doc, source, tokio, dvars>>

\* serde_json::to_string(&credentials): the record is written out.
Write ==
    /\ cpc \in {"parsed", "defaulted"}
    /\ IsOk(result)
    /\ doc' = Serialize(result.value)
    /\ source' = Some(result.value)
    /\ cpc' = "serialised"
    /\ UNCHANGED <<result, tokio, dvars>>

\* serde_json::from_str::<Credentials> of edgedb-tokio, on the document at
\* hand.
TokioParse ==
    /\ tokio.pc = "start"
    /\ tokio' = [pc |-> "parsed", input |-> Some(doc),
                 result |-> TokioDeserialize(doc), output |-> None]
    /\ UNCHANGED <<doc, result, source, cpc, dvars>>

\* Credentials::default() of edgedb-tokio
TokioMakeDefault ==
    /\ tokio.pc = "start"
    /\ tokio' = [pc |-> "defaulted", input |-> None,
                 result |-> Ok(TokioCredentialsDefault), output |-> None]
    /\ UNCHANGED <<doc, result, source, cpc, dvars>>

\* serde_json::to_string(&credentials) of edgedb-tokio
TokioWrite ==
    /\ tokio.pc \in {"parsed", "defaulted"}
    /\ IsOk(tokio.result)
    /\ tokio' = [tokio EXCEPT !.pc = "serialised",
                              !.output = Some(TokioSerialize(tokio.result.value))]
    /\ UNCHANGED <<doc, result, source, cpc, dvars>>

CredNext ==
    \/ Parse
    \/ MakeDefault
    \/ Write
    \/ TokioParse
    \/ TokioMakeDefault
    \/ TokioWrite

CredSpec == CredInit /\ [][CredNext]_vars

----------------------------------------------------------------------------
(* Input: a byte cursor (bytes::Buf) with a protocol version.               *)
(*                                                                          *)
(* The unread bytes are held run-length encoded, as a sequence of runs      *)
(* [bytes, times]: the byte string `bytes`, `times` times in a row. A       *)
(* buffer of 65536 equal records is then one run. Reading unrolls the run   *)
(* at the head.                                                             *)

Run(bytes, times) == [bytes |-> bytes, times |-> times]

\* Buf::remaining
RECURSIVE Remaining(_)
Remaining(b) ==
    IF b = <<>> THEN 0
    ELSE Len(b[1].bytes) * b[1].times + Remaining(Tail(b))

\* buf.chunk()[0]
Chunk0(b) == b[1].bytes[1]

\* The buffer after the byte string at its head, once.
AfterHead(b) ==
    IF b[1].times > 1
    THEN <<Run(b[1].bytes, b[1].times - 1)>> \o Tail(b)
    ELSE Tail(b)

\* The next n bytes (n <= Remaining(b)).
RECURSIVE Peek(_, _)
Peek(b, n) ==
    IF n = 0 THEN <<>>
    ELSE IF Len(b[1].bytes) >= n THEN SubSeq(b[1].bytes, 1, n)
    ELSE b[1].bytes \o Peek(AfterHead(b), n - Len(b[1].bytes))

\* Buf::advance (n <= Remaining(b))
RECURSIVE Advance(_, _)
Advance(b, n) ==
    IF n = 0 THEN b
    ELSE IF Len(b[1].bytes) > n
    THEN <<Run(SubSeq(b[1].bytes, n + 1, Len(b[1].bytes)), 1)>>
         \o AfterHead(b)
    ELSE Advance(AfterHead(b), n - Len(b[1].bytes))

\* The result of a decoder: the value and the cursor after it, or the error
\* and the cursor where it was raised.
Done(v, b) == [ok |-> TRUE, val |-> v, buf |-> b]

Fail(e, b) == [ok |-> FALSE, err |-> e, buf |-> b]

\* let x = e?; ...: an error of e is returned, otherwise the rest of the body
\* goes on with the result of e; so does a panic of e end the caller. (r is
\* evaluated once, as the one element v of {r}.)
Try(r, Body(_)) ==
    CHOOSE out \in {IF v.ok THEN Body(v) ELSE v : v \in {r}} : TRUE

\* Buf::get_* with fewer bytes remaining than it reads: the call panics, on
\* a read past the end of the buffer.
PastEnd == <<"Panic", "PastEnd">>

\* Buf::get_u8, get_u16, get_u32, get_i32: big-endian; they panic when fewer
\* bytes remain.
get_u8(b) ==
    IF Remaining(b) < 1 THEN Fail(PastEnd, b)
    ELSE Done(Peek(b, 1)[1], Advance(b, 1))

get_u16(b) ==
    IF Remaining(b) < 2 THEN Fail(PastEnd, b)
    ELSE LET x == Peek(b, 2) IN Done(x[1] * 256 + x[2], Advance(b, 2))

\* The model's inputs keep the top byte of a u32 below 0x80.
get_u32(b) ==
    IF Remaining(b) < 4 THEN Fail(PastEnd, b)
    ELSE LET x == Peek(b, 4)
         IN  Done(((x[1] * 256 + x[2]) * 256 + x[3]) * 256 + x[4],
                  Advance(b, 4))

get_i32(b) ==
    IF Remaining(b) < 4 THEN Fail(PastEnd, b)
    ELSE LET x == Peek(b, 4)
             hi == IF x[1] >= 128 THEN x[1] - 256 ELSE x[1]
         IN  Done(((hi * 256 + x[2]) * 256 + x[3]) * 256 + x[4],
                  Advance(b, 4))

\* Uuid::decode: 16 raw bytes. A Uuid is held as its 16 bytes.
UuidDecode(b) ==
    IF Remaining(b) < 16 THEN Fail(<<"Underflow">>, b)
    ELSE Done(Peek(b, 16), Advance(b, 16))

\* String::from_utf8, on the bytes the model's inputs use: ASCII bytes form
\* valid UTF-8, a byte 0xFF never does.
IsUtf8(bytes) == \A i \in 1..Len(bytes) : bytes[i] < 128

\* String::decode: a u32 length, then that many bytes of UTF-8. A String is
\* held as its bytes.
StringDecode(b) ==
    IF Remaining(b) < 4 THEN Fail(<<"Underflow">>, b)
    ELSE Try(get_u32(b), LAMBDA len :
         IF Remaining(len.buf) < len.val THEN Fail(<<"Underflow">>, len.buf)
         ELSE IF IsUtf8(Peek(len.buf, len.val))
         THEN Done(Peek(len.buf, len.val), Advance(len.buf, len.val))
         ELSE Fail(<<"InvalidUtf8">>, Advance(len.buf, len.val)))

\* Uuid::from_u128(0)
ZeroUuid == [i \in 1..16 |-> 0]

----------------------------------------------------------------------------
(* features.rs *)

is_at_least_fieldwise(p, major_ver, minor_ver) ==
    p[1] >= major_ver /\ p[2] >= minor_ver

\* ProtocolVersion::is_at_least
is_at_least(p, major_ver, minor_ver) ==
    \/ p[1] > major_ver
    \/ p[1] = major_ver /\ p[2] >= minor_ver

----------------------------------------------------------------------------
(* Descriptor decoders: edgedb-protocol/src/descriptors.rs *)

Underflow == <<"Underflow">>

\* assert!(buf.get_u8() == tag) fails: unreachable behind the dispatch.
Panic == <<"Panic">>

\* Cardinality::try_from(u8)
Cardinalities == {65, 77, 109, 110, 111}

CardinalityTryFrom(byte, b) ==
    IF byte \in Cardinalities THEN Done(byte, b)
    ELSE Fail(<<"InvalidCardinality", byte>>, b)

\* ensure!(buf.remaining() >= n, errors::Underflow); ...
Ensure(b, n, Body(_)) ==
    IF Remaining(b) < n THEN Fail(Underflow, b) ELSE Body(b)

\* assert!(buf.get_u8() == value); ...
AssertTag(b, value, Body(_)) ==
    Try(get_u8(b), LAMBDA tag :
        IF tag.val # value THEN Fail(Panic, tag.buf) ELSE Body(tag.buf))

\* impl Decode for SetDescriptor
SetDecode(b) ==
    Ensure(b, 19, LAMBDA b0 :
    AssertTag(b0, 0, LAMBDA b1 :
    Try(UuidDecode(b1), LAMBDA id :
    Try(get_u16(id.buf), LAMBDA type_pos :
    Done([variant |-> "Set", id |-> id.val, type_pos |-> type_pos.val],
         type_pos.buf)))))

\* let (flags, cardinality) = if buf.proto().is_at_least(0, 11) { .. } else
\* { .. }: the pair is the val of the result
FlagsAndCardinality(p, b) ==
    IF is_at_least(p, 0, 11)
    THEN Try(get_u32(b), LAMBDA flags :
         Try(get_u8(flags.buf), LAMBDA byte :
         Try(CardinalityTryFrom(byte.val, byte.buf), LAMBDA cardinality :
         Done(<<flags.val, Some(cardinality.val)>>, cardinality.buf))))
    ELSE Try(get_u8(b), LAMBDA flags : Done(<<flags.val, None>>, flags.buf))

\* impl Decode for ShapeElement
ShapeElementDecode(p, b) ==
    Ensure(b, 7, LAMBDA b0 :
    Try(FlagsAndCardinality(p, b0), LAMBDA fc :
    Try(StringDecode(fc.buf), LAMBDA name :
    Ensure(name.buf, 2, LAMBDA b1 :
    Try(get_u16(b1), LAMBDA type_pos :
    Done([flag_implicit |-> fc.val[1] % 2 # 0,
          flag_link_property |-> (fc.val[1] \div 2) % 2 # 0,
          flag_link |-> (fc.val[1] \div 4) % 2 # 0,
          cardinality |-> fc.val[2],
          name |-> name.val,
          type_pos |-> type_pos.val], type_pos.buf))))))

\* for _ in 0..element_count { elements.push(ShapeElement::decode(buf)?); }
RECURSIVE ShapeElements(_, _, _, _)
ShapeElements(p, b, n, elements) ==
    IF n = 0 THEN Done(elements, b)
    ELSE Try(ShapeElementDecode(p, b), LAMBDA e :
             ShapeElements(p, e.buf, n - 1, Append(elements, e.val)))

\* impl Decode for ObjectShapeDescriptor
ObjectShapeDecode(p, b) ==
    Ensure(b, 19, LAMBDA b0 :
    AssertTag(b0, 1, LAMBDA b1 :
    Try(UuidDecode(b1), LAMBDA id :
    Try(get_u16(id.buf), LAMBDA element_count :
    Try(ShapeElements(p, element_count.buf, element_count.val, <<>>),
        LAMBDA elements :
    Done([variant |-> "ObjectShape", id |-> id.val,
          elements |-> elements.val], elements.buf))))))

\* impl Decode for InputShapeTypeDescriptor
InputShapeDecode(p, b) ==
    Ensure(b, 19, LAMBDA b0 :
    AssertTag(b0, 8, LAMBDA b1 :
    Try(UuidDecode(b1), LAMBDA id :
    Try(get_u16(id.buf), LAMBDA element_count :
    Try(ShapeElements(p, element_count.buf, element_count.val, <<>>),
        LAMBDA elements :
    Done([variant |-> "InputShape", id |-> id.val,
          elements |-> elements.val], elements.buf))))))

BaseScalarDecodeIdNotConsumed(b) ==
    AssertTag(b, 2, LAMBDA b1 :
    Try(UuidDecode(b1), LAMBDA id :
    Done([variant |-> "BaseScalar", id |-> id.val], b1)))

\* impl Decode for BaseScalarTypeDescriptor: no check of its own, the
\* dispatch has seen one byte and Uuid::decode checks for its sixteen
BaseScalarDecode(b) ==
    AssertTag(b, 2, LAMBDA b1 :
    Try(UuidDecode(b1), LAMBDA id :
    Done([variant |-> "BaseScalar", id |-> id.val], id.buf)))

\* impl Decode for ScalarTypeDescriptor
ScalarDecode(b) ==
    Ensure(b, 19, LAMBDA b0 :
    AssertTag(b0, 3, LAMBDA b1 :
    Try(UuidDecode(b1), LAMBDA id :
    Try(get_u16(id.buf), LAMBDA base_type_pos :
    Done([variant |-> "Scalar", id |-> id.val,
          base_type_pos |-> base_type_pos.val], base_type_pos.buf)))))

\* for _ in 0..el_count { element_types.push(TypePos(buf.get_u16())); }
RECURSIVE TypePositions(_, _, _)
TypePositions(b, n, element_types) ==
    IF n = 0 THEN Done(element_types, b)
    ELSE Try(get_u16(b), LAMBDA pos :
             TypePositions(pos.buf, n - 1, Append(element_types, pos.val)))

TupleDecodeUncheckedSection(b) ==
    Ensure(b, 19, LAMBDA b0 :
    AssertTag(b0, 4, LAMBDA b1 :
    Try(UuidDecode(b1), LAMBDA id :
    Try(get_u16(id.buf), LAMBDA el_count :
    Try(TypePositions(el_count.buf, el_count.val, <<>>),
        LAMBDA element_types :
    Done([variant |-> "Tuple", id |-> id.val,
          element_types |-> element_types.val], element_types.buf))))))

\* impl Decode for TupleTypeDescriptor
TupleDecode(b) ==
    Ensure(b, 19, LAMBDA b0 :
    AssertTag(b0, 4, LAMBDA b1 :
    Try(UuidDecode(b1), LAMBDA id :
    Try(get_u16(id.buf), LAMBDA el_count :
    Ensure(el_count.buf, 2 * el_count.val, LAMBDA b2 :
    Try(TypePositions(b2, el_count.val, <<>>), LAMBDA element_types :
    Done([variant |-> "Tuple", id |-> id.val,
          element_types |-> element_types.val], element_types.buf)))))))

\* impl Decode for TupleElement
TupleElementDecode(b) ==
    Try(StringDecode(b), LAMBDA name :
    Ensure(name.buf, 2, LAMBDA b1 :
    Try(get_u16(b1), LAMBDA type_pos :
    Done([name |-> name.val, type_pos |-> type_pos.val], type_pos.buf))))

\* for _ in 0..element_count { elements.push(TupleElement::decode(buf)?); }
RECURSIVE TupleElements(_, _, _)
TupleElements(b, n, elements) ==
    IF n = 0 THEN Done(elements, b)
    ELSE Try(TupleElementDecode(b), LAMBDA e :
             TupleElements(e.buf, n - 1, Append(elements, e.val)))

\* impl Decode for NamedTupleTypeDescriptor
NamedTupleDecode(b) ==
    Ensure(b, 19, LAMBDA b0 :
    AssertTag(b0, 5, LAMBDA b1 :
    Try(UuidDecode(b1), LAMBDA id :
    Try(get_u16(id.buf), LAMBDA element_count :
    Try(TupleElements(element_count.buf, element_count.val, <<>>),
        LAMBDA elements :
    Done([variant |-> "NamedTuple", id |-> id.val,
          elements |-> elements.val], elements.buf))))))

\* match buf.get_i32() { -1 => None, n if n > 0 => Some(n as u32),
\*                       _ => errors::InvalidArrayShape.fail()? }
Dimension(dim) ==
    IF dim.val = -1 THEN Done(None, dim.buf)
    ELSE IF dim.val > 0 THEN Done(Some(dim.val), dim.buf)
    ELSE Fail(<<"InvalidArrayShape">>, dim.buf)

\* for _ in 0..dim_count { dimensions.push(..); }
RECURSIVE Dimensions(_, _, _)
Dimensions(b, n, dimensions) ==
    IF n = 0 THEN Done(dimensions, b)
    ELSE Try(get_i32(b), LAMBDA dim :
         Try(Dimension(dim), LAMBDA d :
             Dimensions(d.buf, n - 1, Append(dimensions, d.val))))

\* impl Decode for ArrayTypeDescriptor
ArrayDecode(b) ==
    Ensure(b, 21, LAMBDA b0 :
    AssertTag(b0, 6, LAMBDA b1 :
    Try(UuidDecode(b1), LAMBDA id :
    Try(get_u16(id.buf), LAMBDA type_pos :
    Try(get_u16(type_pos.buf), LAMBDA dim_count :
    Ensure(dim_count.buf, 4 * dim_count.val, LAMBDA b2 :
    Try(Dimensions(b2, dim_count.val, <<>>), LAMBDA dimensions :
    Done([variant |-> "Array", id |-> id.val, type_pos |-> type_pos.val,
          dimensions |-> dimensions.val], dimensions.buf))))))))

\* impl Decode for RangeTypeDescriptor
RangeDecode(b) ==
    Ensure(b, 19, LAMBDA b0 :
    AssertTag(b0, 9, LAMBDA b1 :
    Try(UuidDecode(b1), LAMBDA id :
    Try(get_u16(id.buf), LAMBDA type_pos :
    Done([variant |-> "Range", id |-> id.val, type_pos |-> type_pos.val],
         type_pos.buf)))))

\* for _ in 0..member_count { members.push(String::decode(buf)?); }
RECURSIVE Members(_, _, _)
Members(b, n, members) ==
    IF n = 0 THEN Done(members, b)
    ELSE Try(StringDecode(b), LAMBDA m :
             Members(m.buf, n - 1, Append(members, m.val)))

\* impl Decode for EnumerationTypeDescriptor
EnumerationDecode(b) ==
    Ensure(b, 19, LAMBDA b0 :
    AssertTag(b0, 7, LAMBDA b1 :
    Try(UuidDecode(b1), LAMBDA id :
    Try(get_u16(id.buf), LAMBDA member_count :
    Try(Members(member_count.buf, member_count.val, <<>>), LAMBDA members :
    Done([variant |-> "Enumeration", id |-> id.val,
          members |-> members.val], members.buf))))))

\* impl Decode for TypeAnnotationDescriptor
TypeAnnotationDecode(b) ==
    Ensure(b, 21, LAMBDA b0 :
    Try(get_u8(b0), LAMBDA annotated_type :
    IF annotated_type.val < 127 THEN Fail(Panic, annotated_type.buf)
    ELSE Try(UuidDecode(annotated_type.buf), LAMBDA id :
         Try(StringDecode(id.buf), LAMBDA annotation :
         Done([variant |-> "TypeAnnotation",
               annotated_type |-> annotated_type.val,
               id |-> id.val,
               annotation |-> annotation.val], annotation.buf)))))

DescriptorDecodeAnnotationsFrom0x80(p, b) ==
    IF Remaining(b) < 1 THEN Fail(Underflow, b)
    ELSE LET t == Chunk0(b) IN
         CASE t = 0 -> SetDecode(b)
           [] t = 1 -> ObjectShapeDecode(p, b)
           [] t = 2 -> BaseScalarDecode(b)
           [] t = 3 -> ScalarDecode(b)
           [] t = 4 -> TupleDecode(b)
           [] t = 5 -> NamedTupleDecode(b)
           [] t = 6 -> ArrayDecode(b)
           [] t = 7 -> EnumerationDecode(b)
           [] t = 8 -> InputShapeDecode(p, b)
           [] t = 9 -> RangeDecode(b)
           [] t > 127 /\ t <= 255 -> TypeAnnotationDecode(b)
           [] OTHER -> Fail(<<"InvalidTypeDescriptor", t>>, b)

\* impl Decode for Descriptor: the dispatch on the first byte
DescriptorDecode(p, b) ==
    IF Remaining(b) < 1 THEN Fail(Underflow, b)
    ELSE LET t == Chunk0(b) IN
         CASE t = 0 -> SetDecode(b)
           [] t = 1 -> ObjectShapeDecode(p, b)
           [] t = 2 -> BaseScalarDecode(b)
           [] t = 3 -> ScalarDecode(b)
           [] t = 4 -> TupleDecode(b)
           [] t = 5 -> NamedTupleDecode(b)
           [] t = 6 -> ArrayDecode(b)
           [] t = 7 -> EnumerationDecode(b)
           [] t = 8 -> InputShapeDecode(p, b)
           [] t = 9 -> RangeDecode(b)
           [] t >= 127 /\ t <= 255 -> TypeAnnotationDecode(b)
           [] OTHER -> Fail(<<"InvalidTypeDescriptor", t>>, b)

----------------------------------------------------------------------------
(* OutputTypedesc::decode_with_id                                           *)
(*                                                                          *)
(* The Vec<Descriptor> is held run-length encoded too, as a sequence of     *)
(* [item, times]: 65536 equal descriptors are one run. Indices are 0-based, *)
(* as in the code.                                                          *)

\* Vec::len
RECURSIVE VecLen(_)
VecLen(v) == IF v = <<>> THEN 0 ELSE v[1].times + VecLen(Tail(v))

\* Vec::push
Push(v, item) ==
    IF v # <<>> /\ v[Len(v)].item = item
    THEN [v EXCEPT ![Len(v)].times = @ + 1]
    ELSE Append(v, [item |-> item, times |-> 1])

\* descriptors.iter().position(|x| *x.id() == id), from run k on, the runs
\* before it holding `index` items
RECURSIVE PositionFrom(_, _, _, _)
PositionFrom(v, id, k, index) ==
    IF k > Len(v) THEN None
    ELSE IF v[k].item.id = id THEN Some(index)
    ELSE PositionFrom(v, id, k + 1, index + v[k].times)

Position(v, id) == PositionFrom(v, id, 1, 0)

StoreEverything(v, item) == Push(v, item)

\* the match of the loop body: a TypeAnnotation is dropped, any other
\* descriptor is pushed
Store(v, item) ==
    IF item.variant = "TypeAnnotation" THEN v ELSE Push(v, item)

U16Max == 65535

DecodeError(e) == [kind |-> "Err", error |-> e]

RootPosSearchAlways(id, v) ==
    LET idx == Position(v, id) IN
    IF IsNone(idx) THEN DecodeError(<<"UuidNotFound", id>>)
    ELSE IF Unwrap(idx) > U16Max
    THEN DecodeError(<<"TooManyDescriptors", Unwrap(idx)>>)
    ELSE Ok(Some(Unwrap(idx)))

RECURSIVE PositionLastFrom(_, _, _, _)
PositionLastFrom(v, id, k, len) ==
    IF k = 0 THEN None
    ELSE IF v[k].item.id = id THEN Some(len - 1)
    ELSE PositionLastFrom(v, id, k - 1, len - v[k].times)

RootPosOfLastMatch(id, v) ==
    IF id = ZeroUuid THEN Ok(None)
    ELSE LET idx == PositionLastFrom(v, id, Len(v), VecLen(v)) IN
         IF IsNone(idx) THEN DecodeError(<<"UuidNotFound", id>>)
         ELSE IF Unwrap(idx) > U16Max
         THEN DecodeError(<<"TooManyDescriptors", Unwrap(idx)>>)
         ELSE Ok(Some(Unwrap(idx)))

\* let root_pos = if root_id == Uuid::from_u128(0) { None } else { ... }
RootPos(id, v) ==
    IF id = ZeroUuid THEN Ok(None)
    ELSE LET idx == Position(v, id) IN
         IF IsNone(idx) THEN DecodeError(<<"UuidNotFound", id>>)
         ELSE IF Unwrap(idx) > U16Max
         THEN DecodeError(<<"TooManyDescriptors", Unwrap(idx)>>)
         ELSE Ok(Some(Unwrap(idx)))

\* One turn of `while buf.remaining() > 0`: Descriptor::decode(buf)?, then
\* the match on its result.
DecodeLoopTurn ==
    /\ dpc \in {"start", "loop"}
    /\ Remaining(buf) > 0
    /\ LET r == DescriptorDecode(proto, buf) IN
       /\ last' = [kind |-> "Call", input |-> buf, out |-> r]
       /\ buf' = r.buf
       /\ IF r.ok
          THEN /\ descriptors' = Store(descriptors, r.val)
               /\ dpc' = "loop"
               /\ UNCHANGED decoded
          ELSE /\ decoded' = DecodeError(r.err)
               /\ dpc' = "failed"
               /\ UNCHANGED descriptors
    /\ UNCHANGED <<proto, root_id, stream, tail, cvars>>

\* The loop has ended: the root is resolved and the OutputTypedesc returned.
ResolveRoot ==
    /\ dpc \in {"start", "loop"}
    /\ Remaining(buf) = 0
    /\ LET root_pos == RootPos(root_id, descriptors) IN
       decoded' = IF IsOk(root_pos)
                  THEN Ok([proto |-> proto, array |-> descriptors,
                           root_id |-> root_id, root_pos |-> root_pos.value])
                  ELSE root_pos
    /\ dpc' = "done"
    /\ UNCHANGED <<proto, buf, root_id, descriptors, last, stream, tail,
                   cvars>>

\* Descriptor::decode(buf), called on its own: one record is read.
DecodeOne ==
    /\ dpc = "start"
    /\ LET r == DescriptorDecode(proto, buf) IN
       /\ last' = [kind |-> "Call", input |-> buf, out |-> r]
       /\ buf' = r.buf
    /\ dpc' = "single"
    /\ UNCHANGED <<proto, root_id, descriptors, decoded, stream, tail,
                   cvars>>

----------------------------------------------------------------------------
(* The inputs of the decoder: byte streams built from descriptors by the    *)
(* wire format, followed or not by bytes that are no whole record.          *)

U16Bytes(n) == <<n \div 256, n % 256>>

U32Bytes(n) ==
    <<n \div 16777216, (n \div 65536) % 256, (n \div 256) % 256, n % 256>>

\* -1 is FF FF FF FF
I32Bytes(n) == IF n = -1 THEN <<255, 255, 255, 255>> ELSE U32Bytes(n)

StringBytes(str) == U32Bytes(Len(str)) \o str

RECURSIVE Flatten(_)
Flatten(seqs) == IF seqs = <<>> THEN <<>> ELSE seqs[1] \o Flatten(Tail(seqs))

Bit(flag, weight) == IF flag THEN weight ELSE 0

\* The wire format of protocol p gives a shape element a u32 flag word and a
\* cardinality byte from version 0.11 on, the versions ordered as the numbers
\* major * 2^16 + minor.
WideHeader(p) == p[1] * 65536 + p[2] >= 11

ShapeElementBytes(p, e) ==
    LET flags == Bit(e.flag_implicit, 1) + Bit(e.flag_link_property, 2)
                 + Bit(e.flag_link, 4)
    IN  (IF WideHeader(p)
         THEN U32Bytes(flags) \o <<Unwrap(e.cardinality)>>
         ELSE <<flags>>)
        \o StringBytes(e.name) \o U16Bytes(e.type_pos)

TupleElementBytes(e) == StringBytes(e.name) \o U16Bytes(e.type_pos)

DimensionBytes(d) == IF IsNone(d) THEN I32Bytes(-1) ELSE I32Bytes(Unwrap(d))

\* The record of a descriptor on the wire.
Encode(p, d) ==
    CASE d.variant = "Set" -> <<0>> \o d.id \o U16Bytes(d.type_pos)
      [] d.variant = "ObjectShape" ->
             <<1>> \o d.id \o U16Bytes(Len(d.elements))
             \o Flatten([i \in 1..Len(d.elements) |->
                             ShapeElementBytes(p, d.elements[i])])
      [] d.variant = "BaseScalar" -> <<2>> \o d.id
      [] d.variant = "Scalar" -> <<3>> \o d.id \o U16Bytes(d.base_type_pos)
      [] d.variant = "Tuple" ->
             <<4>> \o d.id \o U16Bytes(Len(d.element_types))
             \o Flatten([i \in 1..Len(d.element_types) |->
                             U16Bytes(d.element_types[i])])
      [] d.variant = "NamedTuple" ->
             <<5>> \o d.id \o U16Bytes(Len(d.elements))
             \o Flatten([i \in 1..Len(d.elements) |->
                             TupleElementBytes(d.elements[i])])
      [] d.variant = "Array" ->
             <<6>> \o d.id \o U16Bytes(d.type_pos)
             \o U16Bytes(Len(d.dimensions))
             \o Flatten([i \in 1..Len(d.dimensions) |->
                             DimensionBytes(d.dimensions[i])])
      [] d.variant = "Enumeration" ->
             <<7>> \o d.id \o U16Bytes(Len(d.members))
             \o Flatten([i \in 1..Len(d.members) |->
                             StringBytes(d.members[i])])
      [] d.variant = "InputShape" ->
             <<8>> \o d.id \o U16Bytes(Len(d.elements))
             \o Flatten([i \in 1..Len(d.elements) |->
                             ShapeElementBytes(p, d.elements[i])])
      [] d.variant = "Range" -> <<9>> \o d.id \o U16Bytes(d.type_pos)
      [] d.variant = "TypeAnnotation" ->
             <<d.annotated_type>> \o d.id \o StringBytes(d.annotation)

\* The Uuid whose last byte is n and whose other bytes are 0.
Uuid(n) == [i \in 1..16 |-> IF i = 16 THEN n ELSE 0]

Roots == {Uuid(0), Uuid(1), Uuid(2)}

Protos == {<<0, 10>>, <<0, 11>>, <<1, 0>>}

BaseScalar(id) == [variant |-> "BaseScalar", id |-> id]

Annotation(t, id, text) ==
    [variant |-> "TypeAnnotation", annotated_type |-> t, id |-> id,
     annotation |-> text]

\* A shape element as protocol p decodes it: the cardinality is there from
\* (0, 11) on.
Element(p, implicit, link_property, link, name, pos) ==
    [flag_implicit |-> implicit, flag_link_property |-> link_property,
     flag_link |-> link,
     cardinality |-> IF WideHeader(p) THEN Some(65) ELSE None,
     name |-> name, type_pos |-> pos]

\* The descriptors the streams of the model are made of: every variant, the
\* three ids, an annotation at each end of the tag range.
Samples(p) ==
    {BaseScalar(Uuid(0)), BaseScalar(Uuid(1)), BaseScalar(Uuid(2)),
     [variant |-> "Set", id |-> Uuid(1), type_pos |-> 0],
     [variant |-> "ObjectShape", id |-> Uuid(2),
      elements |-> <<Element(p, TRUE, TRUE, FALSE, <<105, 100>>, 0)>>],
     [variant |-> "Scalar", id |-> Uuid(1), base_type_pos |-> 0],
     [variant |-> "Tuple", id |-> Uuid(2), element_types |-> <<0, 1>>],
     [variant |-> "NamedTuple", id |-> Uuid(1),
      elements |-> <<[name |-> <<120>>, type_pos |-> 0]>>],
     [variant |-> "Array", id |-> Uuid(2), type_pos |-> 1,
      dimensions |-> <<None, Some(3)>>],
     [variant |-> "Enumeration", id |-> Uuid(1),
      members |-> <<<<97>>, <<98, 99>>>>],
     [variant |-> "InputShape", id |-> Uuid(2),
      elements |-> <<Element(p, FALSE, FALSE, TRUE, <<97>>, 0),
                     Element(p, TRUE, FALSE, FALSE, <<>>, 258)>>],
     [variant |-> "Range", id |-> Uuid(1), type_pos |-> 0],
     Annotation(127, Uuid(2), <<102, 111, 111>>),
     Annotation(255, Uuid(1), <<>>)}

MaxRecords == 3

\* The streams of at most n records, each record once.
Streams(p, n) ==
    UNION {{[i \in 1..k |-> [item |-> f[i], times |-> 1]] :
               f \in [1..k -> Samples(p)]} : k \in 0..n}

\* A record with the first byte t: an annotation "a" when t is an annotation
\* tag, and for no other tag a record that ends with these bytes.
TagProbe(t) == <<t>> \o Uuid(1) \o <<0, 0, 0, 1, 97>>

\* Annotations cut short, and one whose text is not UTF-8.
MalformedAnnotations ==
    {SubSeq(Encode(<<1, 0>>, Annotation(127, Uuid(2), <<102, 111, 111>>)),
            1, n) : n \in {1, 17, 20, 21, 23}}
    \cup {<<127>> \o Uuid(2) \o <<0, 0, 0, 1, 255>>}

Tails == {TagProbe(t) : t \in 0..255} \cup MalformedAnnotations

\* Every sample record cut short at every offset inside it.
Truncations(p) ==
    UNION {{SubSeq(Encode(p, d), 1, n) : n \in 1..(Len(Encode(p, d)) - 1)} :
               d \in Samples(p)}

\* The sample shapes in the layout of protocol q.
ShapeRecords(q) ==
    {Encode(q, d) : d \in {s \in Samples(q) :
                               s.variant \in {"ObjectShape", "InputShape"}}}

\* The sample shapes in the layout protocol p does not have: with the
\* one-byte header where p has the flag word and the cardinality, and the
\* other way round.
OtherLayoutShapes(p) ==
    ShapeRecords(IF WideHeader(p) THEN <<0, 10>> ELSE <<0, 11>>)

\* Many equal records and then one other: the last descriptor at the
\* greatest index a u16 holds, or one past it.
BulkStreams ==
    {<<[item |-> BaseScalar(Uuid(1)), times |-> n],
       [item |-> BaseScalar(Uuid(2)), times |-> 1]>> :
        n \in {U16Max, U16Max + 1}}

\* The bytes of a stream and a tail.
InputBytes(p, st, tl) ==
    [i \in 1..Len(st) |-> Run(Encode(p, st[i].item), st[i].times)]
    \o (IF tl = <<>> THEN <<>> ELSE <<Run(tl, 1)>>)

\* The credentials at rest, while the decoder is exercised.
CredentialsIdle ==
    /\ doc = <<>>
    /\ result = NoResult
    /\ source = None
    /\ cpc = "idle"
    /\ tokio = TokioIdle

DecodeInit ==
    /\ CredentialsIdle
    /\ root_id \in Roots
    /\ \/ /\ proto = <<1, 0>>
          /\ stream \in Streams(proto, MaxRecords)
          /\ tail = <<>>
       \/ /\ proto \in Protos
          /\ stream \in Streams(proto, 1)
          /\ tail = <<>>
       \/ /\ proto \in Protos
          /\ stream \in Streams(proto, 1)
          /\ tail \in Tails \cup OtherLayoutShapes(proto)
                      \cup Truncations(proto)
          /\ root_id = Uuid(1)
       \/ /\ proto = <<1, 0>>
          /\ stream \in BulkStreams
          /\ tail = <<>>
          /\ \/ root_id = Uuid(2)
             \/ root_id = ZeroUuid /\ stream[1].times = U16Max
    /\ buf = InputBytes(proto, stream, tail)
    /\ descriptors = <<>>
    /\ decoded = NoResult
    /\ last = NoResult
    /\ dpc = "start"

DecodeNext == DecodeLoopTurn \/ ResolveRoot \/ DecodeOne

DecodeSpec == DecodeInit /\ [][DecodeNext]_vars

\* The decoder is straight-line code in one thread: while a step is left to
\* take, it is taken.
DecodeLive == DecodeSpec /\ WF_vars(DecodeNext)

----------------------------------------------------------------------------
(* Credentials: properties *)

\* A read of the document at hand has just returned.
Read == cpc \in {"parsed", "reparsed"}

IsErr(r, e) == r.kind = "Err" /\ r.error = e

\* C1: a record obtained by default() or by a successful parse, serialised
\* and parsed again, gives the same record with file_outdated = false, for
\* all four tls_security values.
RoundTrip ==
    cpc = "reparsed" =>
        /\ IsOk(result)
        /\ result.value = [Unwrap(source) EXCEPT !.file_outdated = FALSE]

\* The verify flag the claim expects for the tls_security key of a document.
DocExpectedVerify(d) ==
    IF d.tls_security = Some("strict") THEN Some(TRUE)
    ELSE IF d.tls_security = Some("no_host_verification") THEN Some(FALSE)
    ELSE None

DocVerifyConflict(d) ==
    /\ IsSome(d.tls_verify_hostname)
    /\ IsSome(d.tls_security)
    /\ d.tls_verify_hostname = DocExpectedVerify(d)

DocCaConflict(d) ==
    /\ IsSome(d.tls_ca)
    /\ IsSome(d.tls_cert_data)
    /\ Unwrap(d.tls_ca) # Unwrap(d.tls_cert_data)

DocSecurity(d) ==
    IF d.tls_security = Some("insecure") THEN "Insecure"
    ELSE IF d.tls_security = Some("no_host_verification")
    THEN "NoHostVerification"
    ELSE IF d.tls_security = Some("strict") THEN "Strict"
    ELSE IF d.tls_security = Some("default") THEN "Default"
    ELSE IF d.tls_verify_hostname = Some(TRUE) THEN "Strict"
    ELSE IF d.tls_verify_hostname = Some(FALSE) THEN "NoHostVerification"
    ELSE "Default"

\* C2: parsing fails with the verify-hostname/tls_security conflict exactly
\* when both keys are present and tls_verify_hostname equals the flag expected
\* for tls_security; otherwise, absent a tls_ca conflict, it succeeds with
\* tls_security taken from the document, else derived from
\* tls_verify_hostname, else Default.
TlsModeReconciliation ==
    Read =>
        /\ IsErr(result, "conflict_tls_security") <=> DocVerifyConflict(doc)
        /\ (~DocVerifyConflict(doc) /\ ~DocCaConflict(doc)) =>
               /\ IsOk(result)
               /\ result.value.tls_security = DocSecurity(doc)

TlsModeReconciliationWitness ==
    /\ cpc = "parsed"
    /\ doc.tls_security = Some("strict")
    /\ doc.tls_verify_hostname = Some(TRUE)
    /\ IsErr(result, "conflict_tls_security")

\* C3 as stated: a document whose tls_ca and tls_cert_data differ is rejected
\* with the conflict error carrying both values; an accepted document gives
\* tls_ca, else tls_cert_data, else absent.
CaReconciliationAsStated ==
    Read =>
        /\ DocCaConflict(doc) =>
               /\ IsErr(result, "conflict_tls_ca")
               /\ result.values = <<doc.tls_ca, doc.tls_cert_data>>
        /\ IsOk(result) =>
               result.value.tls_ca =
                   IF IsSome(doc.tls_ca) THEN doc.tls_ca ELSE doc.tls_cert_data

\* C3 amended: a document whose tls_ca and tls_cert_data differ is rejected,
\* with the tls_ca conflict error carrying both values unless the
\* verify-hostname/tls_security conflict (tested first) applies, in which
\* case that error is reported; an accepted document gives tls_ca, else
\* tls_cert_data, else absent.
CaReconciliation ==
    Read =>
        /\ DocCaConflict(doc) =>
               IF DocVerifyConflict(doc)
               THEN IsErr(result, "conflict_tls_security")
               ELSE /\ IsErr(result, "conflict_tls_ca")
                    /\ result.values = <<doc.tls_ca, doc.tls_cert_data>>
        /\ IsErr(result, "conflict_tls_ca") => DocCaConflict(doc)
        /\ IsOk(result) =>
               result.value.tls_ca =
                   IF IsSome(doc.tls_ca) THEN doc.tls_ca ELSE doc.tls_cert_data

CaReconciliationWitness ==
    /\ cpc = "parsed"
    /\ doc.tls_ca = Some("A")
    /\ doc.tls_cert_data = Some("B")
    /\ IsErr(result, "conflict_tls_ca")
    /\ result.values = <<Some("A"), Some("B")>>

AliceLegacyDoc ==
    [host |-> None, port |-> None, user |-> Some("alice"), password |-> None,
     database |-> None, tls_cert_data |-> None, tls_ca |-> None,
     tls_verify_hostname |-> Some(TRUE), tls_security |-> None,
     cloud_instance_id |-> None, cloud_original_dsn |-> None]

\* C4: a parsed record has file_outdated exactly when the document carried
\* tls_verify_hostname and no tls_security; the defaulted record has it
\* false; {user:"alice", tls_verify_hostname:true} gives Strict, outdated,
\* port 5656.
FileOutdatedInvariant ==
    /\ (Read /\ IsOk(result)) =>
           (result.value.file_outdated <=>
               (IsSome(doc.tls_verify_hostname) /\ IsNone(doc.tls_security)))
    /\ cpc = "defaulted" => result.value.file_outdated = FALSE
    /\ (cpc = "parsed" /\ doc = AliceLegacyDoc) =>
           /\ IsOk(result)
           /\ result.value.tls_security = "Strict"
           /\ result.value.file_outdated = TRUE
           /\ result.value.port = 5656

FileOutdatedWitness ==
    /\ cpc = "parsed"
    /\ doc = AliceLegacyDoc
    /\ IsOk(result)
    /\ result.value.file_outdated

\* C5: the serialised document carries tls_ca and tls_cert_data together
\* with the record's value or neither; always tls_security; the
\* tls_verify_hostname mirror (true for Strict, false for NoHostVerification
\* and Insecure, none for Default); and host, password, database and the
\* cloud keys exactly when the record has them.
SerialisationPolicy ==
    cpc = "serialised" =>
        LET r == Unwrap(source) IN
        /\ doc.tls_ca = r.tls_ca
        /\ doc.tls_cert_data = r.tls_ca
        /\ doc.tls_security =
               Some(CASE r.tls_security = "Insecure" -> "insecure"
                      [] r.tls_security = "NoHostVerification"
                             -> "no_host_verification"
                      [] r.tls_security = "Strict" -> "strict"
                      [] r.tls_security = "Default" -> "default")
        /\ doc.tls_verify_hostname =
               (CASE r.tls_security = "Strict" -> Some(TRUE)
                  [] r.tls_security \in {"NoHostVerification", "Insecure"}
                         -> Some(FALSE)
                  [] r.tls_security = "Default" -> None)
        /\ doc.host = r.host
        /\ doc.password = r.password
        /\ doc.database = r.database
        /\ doc.cloud_instance_id = r.cloud_instance_id
        /\ doc.cloud_original_dsn = r.cloud_original_dsn

SerialisationPolicyWitness ==
    /\ cpc = "serialised"
    /\ Unwrap(source).tls_security = "Insecure"
    /\ IsSome(Unwrap(source).tls_ca)
    /\ IsNone(Unwrap(source).host)
    /\ doc.tls_verify_hostname = Some(FALSE)

----------------------------------------------------------------------------
(* Descriptor decoder: properties *)

Returned == dpc = "done" /\ IsOk(decoded)

\* The descriptor array the records of a stream give: the annotations left
\* out, the others in stream order.
RECURSIVE ExpectedArray(_, _)
ExpectedArray(st, acc) ==
    IF st = <<>> THEN acc
    ELSE IF st[1].item.variant = "TypeAnnotation"
    THEN ExpectedArray(Tail(st), acc)
    ELSE IF acc # <<>> /\ acc[Len(acc)].item = st[1].item
    THEN ExpectedArray(Tail(st),
                       [acc EXCEPT ![Len(acc)].times = @ + st[1].times])
    ELSE ExpectedArray(Tail(st), Append(acc, st[1]))

\* array[i]
RECURSIVE ItemAt(_, _)
ItemAt(v, i) ==
    IF i < v[1].times THEN v[1].item ELSE ItemAt(Tail(v), i - v[1].times)

\* The number of items in the runs before run k.
RECURSIVE ItemsBefore(_, _)
ItemsBefore(v, k) ==
    IF k = 1 THEN 0 ELSE v[k - 1].times + ItemsBefore(v, k - 1)

HasId(v, id) == \E k \in 1..Len(v) : v[k].item.id = id

\* The least index of an item with this id (there is one).
LeastIndex(v, id) ==
    LET k == CHOOSE k \in 1..Len(v) :
                 /\ v[k].item.id = id
                 /\ \A j \in 1..(k - 1) : v[j].item.id # id
    IN  ItemsBefore(v, k)

\* C6: a successful decode returns exactly the non-annotation records of the
\* stream, in stream order, with every byte of the input consumed; an input
\* with a malformed annotation never reaches the end of the loop.
AnnotationsNotStored ==
    /\ Returned =>
           /\ decoded.value.array = ExpectedArray(stream, <<>>)
           /\ Remaining(buf) = 0
    /\ tail \in MalformedAnnotations => dpc # "done"

AnnotationsNotStoredWitness ==
    /\ Returned
    /\ stream = <<[item |-> BaseScalar(Uuid(1)), times |-> 1],
                  [item |-> Annotation(127, Uuid(2), <<102, 111, 111>>),
                   times |-> 1],
                  [item |-> BaseScalar(Uuid(2)), times |-> 1]>>
    /\ root_id = Uuid(2)
    /\ VecLen(decoded.value.array) = 2
    /\ decoded.value.root_pos = Some(1)

\* C7: the root is resolved only once the whole stream has been consumed
\* without error; a zero root_uuid gives no root position; otherwise the
\* position is the least index of a stored descriptor with that id, the
\* decode failing with UuidNotFound when there is none and with
\* TooManyDescriptors when that index does not fit in 16 bits.
RootResolution ==
    /\ dpc = "failed" =>
           /\ decoded.kind = "Err"
           /\ decoded.error[1] \notin {"UuidNotFound", "TooManyDescriptors"}
    /\ dpc = "done" =>
           /\ Remaining(buf) = 0
           /\ last.kind = "Call" => last.out.ok
           /\ IF root_id = ZeroUuid
              THEN IsOk(decoded) /\ decoded.value.root_pos = None
              ELSE IF ~HasId(descriptors, root_id)
              THEN decoded = DecodeError(<<"UuidNotFound", root_id>>)
              ELSE IF LeastIndex(descriptors, root_id) >= 65536
              THEN decoded =
                       DecodeError(<<"TooManyDescriptors",
                                     LeastIndex(descriptors, root_id)>>)
              ELSE /\ IsOk(decoded)
                   /\ decoded.value.array = descriptors
                   /\ decoded.value.root_pos =
                          Some(LeastIndex(descriptors, root_id))

RootResolutionWitness ==
    /\ dpc = "done"
    /\ decoded = DecodeError(<<"TooManyDescriptors", 65536>>)

\* C8 as stated: a returned descriptor set has a root position exactly when
\* some descriptor of it has the id root_uuid.
RootPresenceAsStated ==
    Returned =>
        (IsSome(decoded.value.root_pos)
             <=> HasId(decoded.value.array, root_id))

\* C8 amended: a returned descriptor set has a root position exactly when
\* root_uuid is not the zero UUID, and then the descriptor at that position
\* has the id root_uuid; with the zero root_uuid there is no root position,
\* also when a descriptor has the zero id.
RootPresence ==
    Returned =>
        /\ IsSome(decoded.value.root_pos) <=> root_id # ZeroUuid
        /\ IsSome(decoded.value.root_pos) =>
               /\ Unwrap(decoded.value.root_pos)
                      < VecLen(decoded.value.array)
               /\ ItemAt(decoded.value.array,
                         Unwrap(decoded.value.root_pos)).id = root_id

RootPresenceWitness ==
    /\ Returned
    /\ root_id = ZeroUuid
    /\ HasId(decoded.value.array, ZeroUuid)
    /\ decoded.value.root_pos = None

\* C9: a returned descriptor set holds fewer than 2^16 descriptors.
SizeInvariant == Returned => VecLen(decoded.value.array) < 65536

VariantOfTag(t) ==
    CASE t = 0 -> "Set"
      [] t = 1 -> "ObjectShape"
      [] t = 2 -> "BaseScalar"
      [] t = 3 -> "Scalar"
      [] t = 4 -> "Tuple"
      [] t = 5 -> "NamedTuple"
      [] t = 6 -> "Array"
      [] t = 7 -> "Enumeration"
      [] t = 8 -> "InputShape"
      [] t = 9 -> "Range"
      [] t \in 127..255 -> "TypeAnnotation"
      [] OTHER -> "none"

\* C10: Descriptor::decode on an empty buffer fails with Underflow; a first
\* byte in 10..0x7E fails with InvalidTypeDescriptor carrying it, consumes
\* nothing and fails decode_with_id; any other first byte selects the
\* variant of the table, and no InvalidTypeDescriptor comes of it.
TagDispatch ==
    last.kind = "Call" =>
        IF Remaining(last.input) = 0
        THEN ~last.out.ok /\ last.out.err = <<"Underflow">>
        ELSE LET t == Chunk0(last.input) IN
             IF t \in 10..126
             THEN /\ ~last.out.ok
                  /\ last.out.err = <<"InvalidTypeDescriptor", t>>
                  /\ last.out.buf = last.input
                  /\ buf = last.input
                  /\ dpc # "single" =>
                         /\ dpc = "failed"
                         /\ decoded =
                                DecodeError(<<"InvalidTypeDescriptor", t>>)
             ELSE /\ last.out.ok => last.out.val.variant = VariantOfTag(t)
                  /\ ~last.out.ok =>
                         last.out.err[1] # "InvalidTypeDescriptor"

TagDispatchWitness ==
    /\ dpc = "failed"
    /\ Len(stream) = 1
    /\ Chunk0(last.input) = 126
    /\ decoded = DecodeError(<<"InvalidTypeDescriptor", 126>>)

----------------------------------------------------------------------------
(* The layout of a ShapeElement by protocol version                         *)

\* The last call of Descriptor::decode was on an ObjectShape or InputShape
\* record.
ShapeCall ==
    /\ last.kind = "Call"
    /\ Remaining(last.input) > 0
    /\ Chunk0(last.input) \in {1, 8}

\* The bytes the last call consumed.
Consumed ==
    Peek(last.input, Remaining(last.input) - Remaining(last.out.buf))

HeaderLen(p) == IF WideHeader(p) THEN 5 ELSE 1

\* The index in the record (from 1) of the first byte of element i, the
\* elements before it laid out with a header of h bytes.
RECURSIVE ElementOffset(_, _, _)
ElementOffset(es, i, h) ==
    IF i = 1 THEN 20
    ELSE ElementOffset(es, i - 1, h) + h + 4 + Len(es[i - 1].name) + 2

\* Element e is what the bytes of c from index off on say, in the layout of
\* protocol p.
ElementAsLaidOut(c, off, e, p) ==
    LET h == HeaderLen(p)
        word == IF WideHeader(p) THEN c[off + 3] ELSE c[off]
        n == Len(e.name)
    IN  /\ e.flag_implicit = (word % 2 = 1)
        /\ e.flag_link_property = ((word \div 2) % 2 = 1)
        /\ e.flag_link = ((word \div 4) % 2 = 1)
        /\ e.cardinality = IF WideHeader(p) THEN Some(c[off + 4]) ELSE None
        /\ <<c[off + h], c[off + h + 1], c[off + h + 2], c[off + h + 3]>>
               = U32Bytes(n)
        /\ e.name = SubSeq(c, off + h + 4, off + h + 3 + n)
        /\ <<c[off + h + 4 + n], c[off + h + 5 + n]>> = U16Bytes(e.type_pos)

\* C11: a shape record that decodes has, for each element, a 4-byte flag word
\* and a cardinality byte when the protocol version is (0, 11) or later in
\* lexicographic order (so for (1, 0) too), and a 1-byte flag word and no
\* cardinality before that; the three flags are bits 0, 1 and 2 of the flag
\* word, and a length-prefixed name and a u16 type_pos follow. A shape
\* record in the layout of the protocol version decodes, one in the other
\* layout does not.
VersionGatedLayout ==
    ShapeCall =>
        /\ last.out.ok =>
               LET es == last.out.val.elements
                   c == Consumed
                   h == HeaderLen(proto)
               IN  /\ Len(c) = ElementOffset(es, Len(es) + 1, h) - 1
                   /\ <<c[18], c[19]>> = U16Bytes(Len(es))
                   /\ \A i \in 1..Len(es) :
                          ElementAsLaidOut(c, ElementOffset(es, i, h),
                                           es[i], proto)
        /\ (stream # <<>> /\ last.input = InputBytes(proto, stream, tail)) =>
               last.out.ok
        /\ (tail \in OtherLayoutShapes(proto)
                /\ last.input = <<Run(tail, 1)>>) =>
               ~last.out.ok

VersionGatedLayoutWitness ==
    /\ ShapeCall
    /\ proto = <<1, 0>>
    /\ Len(stream) = 1
    /\ last.input = InputBytes(proto, stream, tail)
    /\ last.out.ok
    /\ last.out.val.variant = "InputShape"
    /\ Len(last.out.val.elements) = 2
    /\ last.out.val.elements[1].cardinality = Some(65)
    /\ last.out.val.elements[1].flag_link
    /\ Len(Consumed) = 42

----------------------------------------------------------------------------
(* Truncated records                                                        *)

\* The last call of Descriptor::decode was on a sample record cut short.
TruncatedCall ==
    /\ last.kind = "Call"
    /\ tail # <<>>
    /\ last.input = <<Run(tail, 1)>>
    /\ \E d \in Samples(proto) :
           LET record == Encode(proto, d)
           IN  /\ Len(tail) < Len(record)
               /\ tail = SubSeq(record, 1, Len(tail))

----------------------------------------------------------------------------
(* Termination of decode_with_id                                            *)

\* A step is a turn of the loop of decode_with_id.
LoopTurn == dpc \in {"start", "loop"} /\ dpc' \in {"loop", "failed"}

\* The call has come to its end: decode_with_id has returned, or
\* Descriptor::decode has, when called on its own.
Ended == dpc \in {"done", "failed", "single"}

\* C13: every turn of the loop of decode_with_id either returns an error,
\* and then no descriptor set, or leaves at least 17 bytes fewer in the
\* buffer; whenever decode_with_id succeeds no byte remains; and every call
\* comes to its end.
TerminationAndFullConsumption ==
    /\ [][LoopTurn =>
              \/ /\ dpc' = "failed"
                 /\ decoded'.kind = "Err"
              \/ /\ dpc' = "loop"
                 /\ decoded' = NoResult
                 /\ Remaining(buf') + 17 <= Remaining(buf)]_vars
    /\ [](Returned => Remaining(buf) = 0)
    /\ <>Ended

\* Three records read in three turns, nothing left, the set returned.
TerminationWitness ==
    /\ Returned
    /\ Len(stream) = 3
    /\ VecLen(decoded.value.array) = 3
    /\ Remaining(buf) = 0
    /\ Remaining(InputBytes(proto, stream, tail)) >= 3 * 17

----------------------------------------------------------------------------
(* The two dialects of the credentials file                                 *)

CloudKeys == {"cloud_instance_id", "cloud_original_dsn"}

\* A record or a document of edgedb-client, less the two cloud keys.
WithoutCloud(r) == [k \in (DOMAIN r) \ CloudKeys |-> r[k]]

\* C14: when both dialects have read the same document, either both fail,
\* with the same conflict, or both succeed, with equal host, port, user,
\* password, database, tls_ca, tls_security and file_outdated; and when both
\* have written the same record (the cloud fields apart), the documents have
\* the same keys and values apart from the two cloud keys, which
\* edgedb-tokio does not write.
DialectsAgree ==
    /\ (Read /\ tokio.input = Some(doc)) =>
           IF IsOk(result)
           THEN /\ IsOk(tokio.result)
                /\ \A k \in {"host", "port", "user", "password", "database",
                              "tls_ca", "tls_security", "file_outdated"} :
                       tokio.result.value[k] = result.value[k]
           ELSE tokio.result = result
    /\ (/\ cpc \in {"serialised", "reparsed"}
        /\ tokio.pc = "serialised"
        /\ tokio.result.value = WithoutCloud(Unwrap(source))) =>
           /\ DOMAIN Unwrap(tokio.output) = (DOMAIN doc) \ CloudKeys
           /\ Unwrap(tokio.output) = WithoutCloud(doc)

\* Both have read a document with a cloud key, under the insecure mode, and
\* both have written their record.
DialectsAgreeWitness ==
    /\ cpc = "serialised"
    /\ tokio.pc = "serialised"
    /\ IsSome(tokio.input)
    /\ IsSome(Unwrap(tokio.input).cloud_instance_id)
    /\ IsSome(Unwrap(source).cloud_instance_id)
    /\ Unwrap(source).tls_security = "Insecure"
    /\ tokio.result.value = WithoutCloud(Unwrap(source))
    /\ Unwrap(tokio.output) = WithoutCloud(doc)
    /\ IsSome(doc.cloud_instance_id)

====
